---- MODULE Spec2Model ----
\* Model of khmer/_version.py (versioneer-0.14): the version resolvers
\* (keywords, git describe, parent directory) and get_versions.
\* Python strings are sequences of one-character strings, so that strip,
\* startswith, split, sorted, int() and "%d" are computed, not assumed.
EXTENDS Integers, Sequences, FiniteSets, TLC

VARIABLES
    tag_prefix,      \* the tag_prefix argument / module constant
    git_describe,    \* describe line handed to git_parse_vcs_describe
    parsed,          \* git_parse_vcs_describe(git_describe, tag_prefix)
    parsed_dirty,    \* git_parse_vcs_describe(git_describe + "-dirty", tag_prefix)
    versionfile,     \* the file git_get_keywords opens (Missing or its lines)
    keywords,        \* the keywords dict
    kwres,           \* what git_versions_from_keywords returned (or raised)
    likely_tags,     \* the local 'tags' of git_versions_from_keywords at line 121
    pc,              \* position inside get_versions
    git_refnames,    \* module global, line 19
    git_full,        \* module global, line 20
    file_path,       \* os.path.realpath(__file__), or NoFile when __file__ is undefined
    git_dir_exists,  \* os.path.exists(root/.git)
    git_installed,   \* some candidate of GITS can be launched
    describe_proc,   \* exit status and stdout of 'git describe ...'
    revparse_proc,   \* exit status and stdout of 'git rev-parse HEAD'
    default,         \* the caller-supplied default of get_versions
    root,            \* the local 'root' of get_versions
    vcsres,          \* what git_versions_from_vcs returned
    pdres,           \* what versions_from_parentdir returned
    ret,             \* what get_versions returned
    calls,           \* resolvers invoked by this call of get_versions, in order
    nproc            \* subprocesses started by run_command

vars == <<tag_prefix, git_describe, parsed, parsed_dirty, versionfile, keywords,
          kwres, likely_tags, pc, git_refnames, git_full, file_path,
          git_dir_exists, git_installed, describe_proc, revparse_proc, default,
          root, vcsres, pdres, ret, calls, nproc>>

parseVars == <<git_describe, parsed, parsed_dirty>>
kwVars == <<versionfile, keywords, kwres, likely_tags>>
envVars == <<git_refnames, git_full, file_path, git_dir_exists, git_installed,
             describe_proc, revparse_proc, default>>
runVars == <<pc, root, vcsres, pdres, ret, calls, nproc>>

----------------------------------------------------------------------------
\* Bounds of the input pools
MaxNumLen == 2     \* digits in the NUM field of a describe line
MaxRefs == 2       \* entries in an expanded refnames list

----------------------------------------------------------------------------
\* Python str primitives

\* the characters in code point order
Ascii == <<"\n", " ", "\"", "#", "$", "%", "'", "(", ")", "+", ",", "-", ".", "/",
           "0", "1", "2", "3", "4", "5", "6", "7", "8", "9", ":", "=",
           "A", "D", "E", "F", "H", "_",
           "a", "b", "c", "d", "e", "f", "g", "h", "i", "k", "l", "m", "n",
           "o", "p", "r", "s", "t", "u", "v", "w", "x", "y">>

Ord(c) == CHOOSE i \in 1..Len(Ascii) : Ascii[i] = c

IsSpace(c) == c \in {" ", "\n"}
IsDigit(c) == c \in {"0", "1", "2", "3", "4", "5", "6", "7", "8", "9"}
IsLowerHex(c) == IsDigit(c) \/ c \in {"a", "b", "c", "d", "e", "f"}

\* the value None
None == <<"None">>

startswith(s, p) == Len(s) >= Len(p) /\ SubSeq(s, 1, Len(p)) = p
endswith(s, p) == Len(s) >= Len(p) /\ SubSeq(s, Len(s) - Len(p) + 1, Len(s)) = p
\* s[n:]
From(s, n) == SubSeq(s, n + 1, Len(s))
\* c in s
Contains(s, c) == \E i \in 1..Len(s) : s[i] = c

RECURSIVE lstrip_chars(_, _)
lstrip_chars(s, chars) ==
    IF s # <<>> /\ s[1] \in chars THEN lstrip_chars(Tail(s), chars) ELSE s
RECURSIVE rstrip_chars(_, _)
rstrip_chars(s, chars) ==
    IF s # <<>> /\ s[Len(s)] \in chars
    THEN rstrip_chars(SubSeq(s, 1, Len(s) - 1), chars) ELSE s
\* s.strip(chars)
strip_chars(s, chars) == rstrip_chars(lstrip_chars(s, chars), chars)
\* s.strip()
strip(s) == strip_chars(s, {" ", "\n"})

\* s.rindex(sub), 0-based; called only when sub occurs in s
rindex(s, sub) ==
    LET hits == {i \in 0..(Len(s) - Len(sub)) : SubSeq(s, i + 1, i + Len(sub)) = sub}
    IN  CHOOSE i \in hits : \A j \in hits : j <= i

\* s.split(c)
RECURSIVE split(_, _)
split(s, c) ==
    IF ~Contains(s, c) THEN <<s>>
    ELSE LET i == CHOOSE k \in 1..Len(s) : s[k] = c /\ \A j \in 1..(k - 1) : s[j] # c
         IN  <<SubSeq(s, 1, i - 1)>> \o split(From(s, i), c)

\* a < b for str
RECURSIVE StrLess(_, _)
StrLess(a, b) ==
    IF b = <<>> THEN FALSE
    ELSE IF a = <<>> THEN TRUE
    ELSE IF a[1] # b[1] THEN Ord(a[1]) < Ord(b[1])
    ELSE StrLess(Tail(a), Tail(b))

\* variant: descending order
RECURSIVE sorted_desc(_)
sorted_desc(S) ==
    IF S = {} THEN <<>>
    ELSE LET m == CHOOSE x \in S : \A y \in S \ {x} : StrLess(y, x)
         IN  <<m>> \o sorted_desc(S \ {m})

\* sorted(S) for a set of str
RECURSIVE sorted(_)
sorted(S) ==
    IF S = {} THEN <<>>
    ELSE LET m == CHOOSE x \in S : \A y \in S \ {x} : StrLess(x, y)
         IN  <<m>> \o sorted(S \ {m})

\* int(s) for a string of digits
RECURSIVE int(_)
int(s) ==
    IF s = <<>> THEN 0
    ELSE int(SubSeq(s, 1, Len(s) - 1)) * 10 + (Ord(s[Len(s)]) - Ord("0"))

\* "%d" % n
RECURSIVE fmt_d(_)
fmt_d(n) ==
    IF n < 10 THEN <<Ascii[Ord("0") + n]>>
    ELSE fmt_d(n \div 10) \o <<Ascii[Ord("0") + (n % 10)]>>

----------------------------------------------------------------------------
\* git_parse_vcs_describe

DIRTY == <<"-", "d", "i", "r", "t", "y">>
DOT_DIRTY == <<".", "d", "i", "r", "t", "y">>
UNTAGGED == <<"0", "+", "u", "n", "t", "a", "g", "g", "e", "d", ".", "g">>
UNPARSEABLE == <<"0", "+", "u", "n", "p", "a", "r", "s", "e", "a", "b", "l", "e">>
UNKNOWN == <<"0", "+", "u", "n", "k", "n", "o", "w", "n">>

\* the matches of ^(.+)-(\d+)-g([0-9a-f]+)$ on s, as <<end of group 1,
\* end of group 2, end of group 3>>; $ also matches before a final newline
DescribeMatches(s) ==
    LET ends == {Len(s)} \cup (IF s # <<>> /\ s[Len(s)] = "\n" THEN {Len(s) - 1} ELSE {})
        dashes == {i \in 1..Len(s) : s[i] = "-"}
    IN  {m \in {<<a - 1, b - 1, e>> : a \in dashes, b \in dashes, e \in ends} :
            /\ 1 <= m[1]
            /\ m[1] + 2 <= m[2]
            /\ m[2] + 3 <= m[3]
            /\ \A k \in 1..m[1] : s[k] # "\n"
            /\ \A k \in (m[1] + 2)..m[2] : IsDigit(s[k])
            /\ s[m[2] + 2] = "g"
            /\ \A k \in (m[2] + 3)..m[3] : IsLowerHex(s[k])}

\* the match the greedy quantifiers settle on
GreedyMatch(M) ==
    CHOOSE m \in M : \A o \in M :
        \/ o[1] < m[1]
        \/ o[1] = m[1] /\ o[2] < m[2]
        \/ o[1] = m[1] /\ o[2] = m[2] /\ o[3] <= m[3]

Tuple(v, d) == [kind |-> "tuple", version |-> v, dirty |-> d]
NotRun == [kind |-> "notrun"]

\* variant: the local version suffix is appended even to a clean exact tag
compose_version_always(tag, distance, commit, dirty, dirty_suffix) ==
    tag \o <<"+">> \o fmt_d(distance) \o <<".", "g">> \o commit \o dirty_suffix

\* variant: line 176 tests the distance only
compose_version_distance_only(tag, distance, commit, dirty, dirty_suffix) ==
    IF distance # 0
    THEN tag \o <<"+">> \o fmt_d(distance) \o <<".", "g">> \o commit \o dirty_suffix
    ELSE tag

\* lines 175-177: TAG[+NUM.gHEX[.dirty]]
compose_version(tag, distance, commit, dirty, dirty_suffix) ==
    IF distance # 0 \/ dirty
    THEN tag \o <<"+">> \o fmt_d(distance) \o <<".", "g">> \o commit \o dirty_suffix
    ELSE tag

git_parse_vcs_describe(describe_in, prefix) ==
    LET dirty == endswith(describe_in, DIRTY)
        desc == IF dirty THEN SubSeq(describe_in, 1, rindex(describe_in, DIRTY))
                ELSE describe_in
        dirty_suffix == IF dirty THEN DOT_DIRTY ELSE <<>>
        M == DescribeMatches(desc)
    IN  IF ~Contains(desc, "-") THEN Tuple(UNTAGGED \o desc \o dirty_suffix, dirty)
        ELSE IF M = {} THEN Tuple(UNPARSEABLE \o dirty_suffix, dirty)
        ELSE LET mo == GreedyMatch(M)
                 full_tag == SubSeq(desc, 1, mo[1])
                 tag == From(full_tag, Len(prefix))
                 distance == int(SubSeq(desc, mo[1] + 2, mo[2]))
                 commit == SubSeq(desc, mo[2] + 3, mo[3])
             IN  IF ~startswith(full_tag, prefix) THEN Tuple(None, dirty)
                 ELSE Tuple(compose_version(tag, distance, commit, dirty, dirty_suffix),
                            dirty)

----------------------------------------------------------------------------
\* Return values: {} , a {"version": .., "full": ..} dict, None, or a raised KeyError

Empty == [kind |-> "empty"]
NoneRes == [kind |-> "None"]
KeyError == [kind |-> "KeyError"]
Dict(v, f) == [kind |-> "dict", version |-> v, full |-> f]
\* bool(r) for a return value
Truthy(r) == r.kind = "dict"

----------------------------------------------------------------------------
\* git_get_keywords

Missing == [kind |-> "missing"]
File(lines) == [kind |-> "file", lines |-> lines]

GIT_REFNAMES_EQ == <<"g", "i", "t", "_", "r", "e", "f", "n", "a", "m", "e", "s", " ", "=">>
GIT_FULL_EQ == <<"g", "i", "t", "_", "f", "u", "l", "l", " ", "=">>

\* the matches of =\s*"(.*)" in line, as <<position of '=', opening quote,
\* closing quote>>
KeywordMatches(line) ==
    LET eqs == {i \in 1..Len(line) : line[i] = "="}
        quotes == {i \in 1..Len(line) : line[i] = "\""}
    IN  {m \in eqs \X quotes \X quotes :
            /\ m[1] < m[2] /\ m[2] < m[3]
            /\ \A k \in (m[1] + 1)..(m[2] - 1) : IsSpace(line[k])
            /\ \A k \in (m[2] + 1)..(m[3] - 1) : line[k] # "\n"}

\* re.search: leftmost start, then the greedy (.*) takes the last closing quote
KeywordGroup(line) ==
    LET M == KeywordMatches(line)
        m == CHOOSE x \in M : \A o \in M :
                 \/ x[1] < o[1]
                 \/ x[1] = o[1] /\ o[3] <= x[3]
    IN  SubSeq(line, m[2] + 1, m[3] - 1)

EmptyDict == [k \in {} |-> <<>>]
Put(d, key, val) == [k \in (DOMAIN d) \cup {key} |-> IF k = key THEN val ELSE d[k]]

\* lines 81-88, one line of the file
ScanLine(kw, line) ==
    LET kw1 == IF startswith(strip(line), GIT_REFNAMES_EQ) /\ KeywordMatches(line) # {}
               THEN Put(kw, "refnames", KeywordGroup(line)) ELSE kw
    IN  IF startswith(strip(line), GIT_FULL_EQ) /\ KeywordMatches(line) # {}
        THEN Put(kw1, "full", KeywordGroup(line)) ELSE kw1

RECURSIVE ScanLines(_, _)
ScanLines(kw, lines) ==
    IF lines = <<>> THEN kw ELSE ScanLines(ScanLine(kw, lines[1]), Tail(lines))

git_get_keywords(versionfile_abs) ==
    IF versionfile_abs.kind = "missing" THEN EmptyDict
    ELSE ScanLines(EmptyDict, versionfile_abs.lines)

----------------------------------------------------------------------------
\* git_versions_from_keywords

FORMAT == <<"$", "F", "o", "r", "m", "a", "t">>
TAG == <<"t", "a", "g", ":", " ">>

\* line 103
Refs(refnames) ==
    LET parts == split(strip_chars(refnames, {"(", ")"}), ",")
    IN  {strip(parts[i]) : i \in 1..Len(parts)}

\* variant: the digit heuristic is applied whether or not a "tag: " entry exists
LikelyTags_union(refs) ==
    {From(r, Len(TAG)) : r \in {x \in refs : startswith(x, TAG)}}
        \cup {r \in refs : \E i \in 1..Len(r) : IsDigit(r[i])}

\* lines 107-116
LikelyTags(refs) ==
    LET tags == {From(r, Len(TAG)) : r \in {x \in refs : startswith(x, TAG)}}
    IN  IF tags = {} THEN {r \in refs : \E i \in 1..Len(r) : IsDigit(r[i])}
        ELSE tags

\* lines 121-133: the version picked from the sorted candidates
PickVersion(tags, prefix) ==
    LET order == sorted(tags)
        hits == {i \in 1..Len(order) : startswith(order[i], prefix)}
    IN  IF hits = {} THEN UNKNOWN
        ELSE From(order[CHOOSE i \in hits : \A j \in hits : i <= j], Len(prefix))

\* variant: an empty refnames is treated like missing keywords
git_versions_from_keywords_blank(kw, prefix) ==
    IF DOMAIN kw = {} THEN Empty
    ELSE IF "refnames" \notin DOMAIN kw THEN KeyError
    ELSE LET refnames == strip(kw["refnames"])
         IN  IF refnames = <<>> \/ startswith(refnames, FORMAT) THEN Empty
             ELSE IF "full" \notin DOMAIN kw THEN KeyError
             ELSE Dict(PickVersion(LikelyTags(Refs(refnames)), prefix), strip(kw["full"]))

\* variant: the placeholder test is made on the untrimmed refnames
git_versions_from_keywords_untrimmed(kw, prefix) ==
    IF DOMAIN kw = {} THEN Empty
    ELSE IF "refnames" \notin DOMAIN kw THEN KeyError
    ELSE LET refnames == strip(kw["refnames"])
         IN  IF startswith(kw["refnames"], FORMAT) THEN Empty
             ELSE IF "full" \notin DOMAIN kw THEN KeyError
             ELSE Dict(PickVersion(LikelyTags(Refs(refnames)), prefix), strip(kw["full"]))

git_versions_from_keywords(kw, prefix) ==
    IF DOMAIN kw = {} THEN Empty
    ELSE IF "refnames" \notin DOMAIN kw THEN KeyError
    ELSE LET refnames == strip(kw["refnames"])
         IN  IF startswith(refnames, FORMAT) THEN Empty
             ELSE IF "full" \notin DOMAIN kw THEN KeyError
             ELSE Dict(PickVersion(LikelyTags(Refs(refnames)), prefix), strip(kw["full"]))

\* the candidate set 'tags' when line 121 is reached ({} when it is not)
TagsAtLine121(kw) ==
    IF "refnames" \notin DOMAIN kw THEN {}
    ELSE LET refnames == strip(kw["refnames"])
         IN  IF startswith(refnames, FORMAT) THEN {} ELSE LikelyTags(Refs(refnames))

----------------------------------------------------------------------------
\* versions_from_parentdir, run_command, git_versions_from_vcs

parentdir_prefix == <<".">>
versionfile_source == <<"k", "h", "m", "e", "r", "/", "_", "v", "e", "r", "s", "i", "o", "n",
                        ".", "p", "y">>
MODULE_TAG_PREFIX == <<"v">>

\* p.rfind("/") + 1
AfterLastSlash(p) ==
    LET hits == {i \in 1..Len(p) : p[i] = "/"}
    IN  IF hits = {} THEN 0 ELSE CHOOSE i \in hits : \A j \in hits : j <= i

\* os.path.basename
basename(p) == From(p, AfterLastSlash(p))
\* os.path.dirname
dirname(p) ==
    LET head == SubSeq(p, 1, AfterLastSlash(p))
    IN  IF head # <<>> /\ \E i \in 1..Len(head) : head[i] # "/"
        THEN rstrip_chars(head, {"/"}) ELSE head

\* lines 233-234
RECURSIVE UpDirs(_, _)
UpDirs(p, n) == IF n = 0 THEN p ELSE UpDirs(dirname(p), n - 1)

versions_from_parentdir(prefix, rootdir) ==
    LET dname == basename(rootdir)
    IN  IF ~startswith(dname, prefix) THEN NoneRes
        ELSE Dict(From(dname, Len(prefix)), <<>>)

Proc(rc, out) == [rc |-> rc, stdout |-> out]

\* run_command: None when no candidate launches or the exit status is non-zero
run_command(installed, proc) ==
    IF ~installed THEN None
    ELSE IF proc.rc # 0 THEN None
    ELSE strip(proc.stdout)

\* git_versions_from_vcs; 'started' counts the subprocesses it launched
git_versions_from_vcs(prefix, has_git_dir, installed, dproc, rproc) ==
    IF ~has_git_dir THEN [res |-> Empty, started |-> 0]
    ELSE LET out1 == run_command(installed, dproc)
             n1 == IF installed THEN 1 ELSE 0
         IN  IF out1 = None THEN [res |-> Empty, started |-> n1]
             ELSE LET vd == git_parse_vcs_describe(out1, prefix)
                      out2 == run_command(installed, rproc)
                  IN  IF out2 = None THEN [res |-> Empty, started |-> n1 + 1]
                      ELSE [res |-> Dict(vd.version,
                                         IF vd.dirty THEN strip(out2) \o DOT_DIRTY
                                         ELSE strip(out2)),
                            started |-> n1 + 1]

----------------------------------------------------------------------------
\* Input pools

SeqsUpTo(S, n) == UNION {[1..k -> S] : k \in 0..n}
NonEmptySeqsUpTo(S, n) == UNION {[1..k -> S] : k \in 1..n}

Prefixes == {<<"v">>, <<>>, <<"x">>}

TagPool == {<<"1">>, <<"1", ".", "0">>, <<"1", "-", "r", "c">>,
            <<"1", "-", "0", "-", "g", "a">>, <<>>,
            <<"1", ".", "d", "i", "r", "t", "y">>}
NumStrings == NonEmptySeqsUpTo({"0", "1", "2"}, MaxNumLen)
HexPool == {<<"a", "1">>, <<"0", "f", "e">>}
\* names git can give a tag: PREFIX+TAG, never empty
FullTags == {p \o t : p \in Prefixes, t \in TagPool} \ {<<>>}

Describe(full_tag, num, hex) == full_tag \o <<"-">> \o num \o <<"-", "g">> \o hex

RawDescribes == {<<"a", "b", "c", "1">>,
                 <<"a", "b", "c", "1">> \o DIRTY,
                 <<"g", "a", "r", "b", "a", "g", "e", "-", "n", "o", "t", "-", "a",
                   "-", "m", "a", "t", "c", "h">>,
                 <<"v", "1", "-", "x", "-", "g", "a", "b">>,
                 <<"v", "1", "-", "0", "-", "g", "x", "y">>}

DescribeInputs ==
    {Describe(ft, n, h) : ft \in FullTags, n \in NumStrings, h \in HexPool}
        \cup RawDescribes

RefEntries == {<<"H", "E", "A", "D">>,
               <<"m", "a", "s", "t", "e", "r">>,
               TAG \o <<"v", "2", ".", "0">>,
               TAG \o <<"v", "2", ".", "0", "r", "c", "1">>,
               <<"v", "1", ".", "5">>,
               TAG \o <<"x", "1">>,
               <<"x", "9">>}
EntrySeqs == SeqsUpTo(RefEntries, MaxRefs)

RECURSIVE Join(_)
Join(es) ==
    IF Len(es) = 1 THEN es[1] ELSE es[1] \o <<",", " ">> \o Join(Tail(es))
\* what git-archive substitutes for %d
Render(es) == IF es = <<>> THEN <<>> ELSE <<" ", "(">> \o Join(es) \o <<")">>
RenderMap == [es \in EntrySeqs |-> Render(es)]

FORMAT_D == <<"$", "F", "o", "r", "m", "a", "t", ":", "%", "d", "$">>
FORMAT_H == <<"$", "F", "o", "r", "m", "a", "t", ":", "%", "H", "$">>
FULLHEX == <<"0", "f", "e", "1">>

SpecialRefnames == {FORMAT_D,
                    <<" ">> \o FORMAT_D,
                    <<" ", " ">>,
                    <<" ", "(", "v", "1", ".", "5", ",", " ">> \o FORMAT_D \o <<")">>}
RefnamesPool == {RenderMap[es] : es \in EntrySeqs} \cup SpecialRefnames

RefLine(r) == GIT_REFNAMES_EQ \o <<" ", "\"">> \o r \o <<"\"", "\n">>
FullLine(f) == GIT_FULL_EQ \o <<" ", "\"">> \o f \o <<"\"", "\n">>
CommentLine == <<"#", " ", "x", "\n">>
UnquotedRefLine == GIT_REFNAMES_EQ \o <<" ", "'", "v", "1", ".", "5", "'", "\n">>

FilePool ==
    {Missing} \cup
    {File(<<CommentLine>> \o rl \o fl) :
        rl \in {<<>>, <<UnquotedRefLine>>} \cup {<<RefLine(r)>> : r \in RefnamesPool},
        fl \in {<<>>, <<FullLine(<<" ">> \o FULLHEX)>>, <<FullLine(FORMAT_H)>>}}

GitRefnamesPool ==
    {FORMAT_D,
     <<" ">> \o FORMAT_D,
     <<>>,
     <<" ", " ">>,
     Render(<<<<"H", "E", "A", "D">>, <<"m", "a", "s", "t", "e", "r">>>>),
     Render(<<TAG \o <<"v", "2", ".", "0">>, TAG \o <<"v", "2", ".", "0", "r", "c", "1">>>>),
     Render(<<TAG \o <<"x", "1">>, <<"v", "1", ".", "5">>>>),
     <<" ", "(", "v", "1", ".", "5", ",", " ">> \o FORMAT_D \o <<")">>}
GitFullPool == {FORMAT_H, FULLHEX}

NoFile == <<"NameError">>
VERSION_PY == <<"/">> \o versionfile_source
FilePaths == {NoFile,
              <<"/", "s", "/", ".", "1", ".", "2">> \o VERSION_PY,
              <<"/", "s", "/", "k", "h", "-", "1", ".", "2">> \o VERSION_PY,
              VERSION_PY}

DescribeOutputs == {<<"v", "1", ".", "0", "-", "0", "-", "g", "a", "1">>,
                    <<"v", "1", ".", "0", "-", "2", "-", "g", "a", "1">>,
                    <<"v", "1", ".", "0", "-", "2", "-", "g", "a", "1">> \o DIRTY,
                    <<"x", "1", "-", "0", "-", "g", "a", "1">>,
                    <<"x", "1", "-", "0", "-", "g", "a", "1">> \o DIRTY,
                    FULLHEX,
                    FULLHEX \o DIRTY,
                    <<"b", "a", "d", "-", "o", "u", "t">>,
                    <<"v", "1", ".", "d", "i", "r", "t", "y", "-", "0", "-", "g", "a", "1">>}
DescribeProcs == {Proc(1, <<>>)} \cup {Proc(0, o \o <<"\n">>) : o \in DescribeOutputs}
RevParseProcs == {Proc(1, <<>>), Proc(0, FULLHEX \o <<"a", "b", "\n">>)}
Defaults == {Dict(UNKNOWN, <<>>), Dict(<<"9">>, <<>>)}

----------------------------------------------------------------------------
\* Values of the variables a specification does not use

IdleParse ==
    /\ git_describe = <<>>
    /\ parsed = NotRun
    /\ parsed_dirty = NotRun
IdleKeywords ==
    /\ versionfile = Missing
    /\ keywords = EmptyDict
    /\ kwres = NotRun
    /\ likely_tags = {}
IdleEnv ==
    /\ git_refnames = FORMAT_D
    /\ git_full = FORMAT_H
    /\ file_path = NoFile
    /\ git_dir_exists = FALSE
    /\ git_installed = FALSE
    /\ describe_proc = Proc(1, <<>>)
    /\ revparse_proc = Proc(1, <<>>)
    /\ default = Dict(UNKNOWN, <<>>)
IdleRun ==
    /\ pc = "idle"
    /\ root = <<>>
    /\ vcsres = NotRun
    /\ pdres = NotRun
    /\ ret = NotRun
    /\ calls = <<>>
    /\ nproc = 0

----------------------------------------------------------------------------
\* git_parse_vcs_describe applied to a describe line and to its dirty variant

InitParse ==
    /\ tag_prefix \in Prefixes
    /\ git_describe \in DescribeInputs
    /\ parsed = NotRun
    /\ parsed_dirty = NotRun
    /\ IdleKeywords /\ IdleEnv /\ IdleRun

ParseDescribe ==
    /\ parsed = NotRun
    /\ parsed' = git_parse_vcs_describe(git_describe, tag_prefix)
    /\ UNCHANGED <<tag_prefix, git_describe, parsed_dirty, kwVars, envVars, runVars>>

ParseDirtyDescribe ==
    /\ parsed_dirty = NotRun
    /\ parsed_dirty' = git_parse_vcs_describe(git_describe \o DIRTY, tag_prefix)
    /\ UNCHANGED <<tag_prefix, git_describe, parsed, kwVars, envVars, runVars>>

NextParse == ParseDescribe \/ ParseDirtyDescribe
SpecParse == InitParse /\ [][NextParse]_vars

----------------------------------------------------------------------------
\* git_get_keywords followed by git_versions_from_keywords (the setup.py path)

InitKeywords ==
    /\ tag_prefix \in Prefixes
    /\ versionfile \in FilePool
    /\ keywords = EmptyDict
    /\ kwres = NotRun
    /\ likely_tags = {}
    /\ pc = "get_keywords"
    /\ root = <<>> /\ vcsres = NotRun /\ pdres = NotRun /\ ret = NotRun
    /\ calls = <<>> /\ nproc = 0
    /\ IdleParse /\ IdleEnv

GetKeywords ==
    /\ pc = "get_keywords"
    /\ keywords' = git_get_keywords(versionfile)
    /\ pc' = "from_keywords"
    /\ UNCHANGED <<tag_prefix, parseVars, versionfile, kwres, likely_tags, envVars,
                   root, vcsres, pdres, ret, calls, nproc>>

VersionsFromKeywords ==
    /\ pc = "from_keywords"
    /\ kwres' = git_versions_from_keywords(keywords, tag_prefix)
    /\ likely_tags' = TagsAtLine121(keywords)
    /\ pc' = "returned"
    /\ UNCHANGED <<tag_prefix, parseVars, versionfile, keywords, envVars,
                   root, vcsres, pdres, ret, calls, nproc>>

NextKeywords == GetKeywords \/ VersionsFromKeywords
SpecKeywords == InitKeywords /\ [][NextKeywords]_vars

----------------------------------------------------------------------------
\* get_versions

Init ==
    /\ tag_prefix = MODULE_TAG_PREFIX
    /\ git_refnames \in GitRefnamesPool
    /\ git_full \in GitFullPool
    /\ file_path \in FilePaths
    /\ git_dir_exists \in BOOLEAN
    /\ git_installed \in BOOLEAN
    /\ describe_proc \in DescribeProcs
    /\ revparse_proc \in RevParseProcs
    /\ default \in Defaults
    /\ pc = "keywords"
    /\ root = <<>> /\ vcsres = NotRun /\ pdres = NotRun /\ ret = NotRun
    /\ calls = <<>> /\ nproc = 0
    /\ IdleParse /\ IdleKeywords

\* variant: line 225 does not return, the chain goes on after a keyword success
KeywordsStep_no_return ==
    /\ pc = "keywords"
    /\ LET kw == [k \in {"refnames", "full"} |->
                     IF k = "refnames" THEN git_refnames ELSE git_full]
           ver == git_versions_from_keywords(kw, tag_prefix)
       IN  /\ keywords' = kw
           /\ kwres' = ver
           /\ likely_tags' = TagsAtLine121(kw)
           /\ calls' = Append(calls, "keywords")
           /\ ret' = IF Truthy(ver) THEN ver ELSE ret
           /\ pc' = "root"
    /\ UNCHANGED <<tag_prefix, parseVars, versionfile, envVars, root, vcsres, pdres, nproc>>

\* lines 223-226
KeywordsStep ==
    /\ pc = "keywords"
    /\ LET kw == [k \in {"refnames", "full"} |->
                     IF k = "refnames" THEN git_refnames ELSE git_full]
           ver == git_versions_from_keywords(kw, tag_prefix)
       IN  /\ keywords' = kw
           /\ kwres' = ver
           /\ likely_tags' = TagsAtLine121(kw)
           /\ calls' = Append(calls, "keywords")
           /\ IF Truthy(ver) THEN ret' = ver /\ pc' = "done"
              ELSE ret' = ret /\ pc' = "root"
    /\ UNCHANGED <<tag_prefix, parseVars, versionfile, envVars, root, vcsres, pdres, nproc>>

\* lines 228-236
RootStep ==
    /\ pc = "root"
    /\ IF file_path = NoFile
       THEN /\ ret' = default
            /\ calls' = Append(calls, "default")
            /\ pc' = "done"
            /\ root' = root
       ELSE /\ root' = UpDirs(file_path, Len(split(versionfile_source, "/")))
            /\ pc' = "vcs"
            /\ UNCHANGED <<ret, calls>>
    /\ UNCHANGED <<tag_prefix, parseVars, kwVars, envVars, vcsres, pdres, nproc>>

\* line 238
VcsStep ==
    /\ pc = "vcs"
    /\ LET r == git_versions_from_vcs(tag_prefix, git_dir_exists, git_installed,
                                      describe_proc, revparse_proc)
       IN  /\ vcsres' = r.res
           /\ nproc' = nproc + r.started
           /\ calls' = Append(calls, "vcs")
           /\ IF Truthy(r.res) THEN ret' = r.res /\ pc' = "done"
              ELSE ret' = ret /\ pc' = "parentdir"
    /\ UNCHANGED <<tag_prefix, parseVars, kwVars, envVars, root, pdres>>

\* line 239
ParentdirStep ==
    /\ pc = "parentdir"
    /\ LET r == versions_from_parentdir(parentdir_prefix, root)
       IN  /\ pdres' = r
           /\ calls' = Append(calls, "parentdir")
           /\ IF Truthy(r) THEN ret' = r /\ pc' = "done"
              ELSE ret' = ret /\ pc' = "default"
    /\ UNCHANGED <<tag_prefix, parseVars, kwVars, envVars, root, vcsres, nproc>>

\* line 240
DefaultStep ==
    /\ pc = "default"
    /\ ret' = default
    /\ calls' = Append(calls, "default")
    /\ pc' = "done"
    /\ UNCHANGED <<tag_prefix, parseVars, kwVars, envVars, root, vcsres, pdres, nproc>>

Next == KeywordsStep \/ RootStep \/ VcsStep \/ ParentdirStep \/ DefaultStep
Spec == Init /\ [][Next]_vars

----------------------------------------------------------------------------
\* Properties

AllZeros(n) == \A i \in 1..Len(n) : n[i] = "0"
\* the decimal numeral without leading zeros
RECURSIVE Canonical(_)
Canonical(n) == IF Len(n) > 1 /\ n[1] = "0" THEN Canonical(Tail(n)) ELSE n
RemoveSuffix(s, suf) == SubSeq(s, 1, Len(s) - Len(suf))
Blank(s) == \A i \in 1..Len(s) : IsSpace(s[i])
ContainsSub(s, sub) ==
    \E i \in 0..(Len(s) - Len(sub)) : SubSeq(s, i + 1, i + Len(sub)) = sub
\* a < b in code point order, shorter prefix first
LexLess(a, b) ==
    \E k \in 1..Len(b) :
        /\ Len(a) >= k - 1
        /\ SubSeq(a, 1, k - 1) = SubSeq(b, 1, k - 1)
        /\ (Len(a) = k - 1 \/ Ord(a[k]) < Ord(b[k]))
HasDigit(s) == \E i \in 1..Len(s) : s[i] \in {"0", "1", "2", "3", "4", "5", "6", "7", "8", "9"}
Rank(c) == CASE c = "keywords" -> 1 [] c = "vcs" -> 2 [] c = "parentdir" -> 3
             [] c = "default" -> 4

\* C1: get_versions consults keywords, VCS, parent directory, default in that
\* order, each at most once; the first non-empty result is what it returns,
\* nothing later is invoked after it, and a keyword success starts no
\* subprocess.
FirstSuccessWins ==
    /\ \A i, j \in 1..Len(calls) : i < j => Rank(calls[i]) < Rank(calls[j])
    /\ calls # <<>> => calls[1] = "keywords"
    /\ \A i \in 1..Len(calls) : calls[i] = "parentdir" => calls[i - 1] = "vcs"
    /\ \A i \in 1..Len(calls) : calls[i] = "vcs" => calls[i - 1] = "keywords"
    /\ \A i \in 1..Len(calls) : calls[i] = "default" =>
           \/ calls[i - 1] = "parentdir"
           \/ calls[i - 1] = "keywords" /\ file_path = NoFile
    /\ Truthy(kwres) =>
           /\ calls = <<"keywords">> /\ nproc = 0
           /\ vcsres = NotRun /\ pdres = NotRun /\ pc = "done" /\ ret = kwres
    /\ Truthy(vcsres) =>
           /\ calls = <<"keywords", "vcs">>
           /\ pdres = NotRun /\ pc = "done" /\ ret = vcsres
    /\ Truthy(pdres) =>
           /\ calls = <<"keywords", "vcs", "parentdir">> /\ pc = "done" /\ ret = pdres
    /\ (pc = "done" /\ calls[Len(calls)] = "default") =>
           /\ ret = default
           /\ ~Truthy(kwres) /\ ~Truthy(vcsres) /\ ~Truthy(pdres)
    /\ nproc <= 2

KeywordSuccessSkipsGit ==
    /\ pc = "done" /\ Truthy(kwres) /\ ret = kwres
    /\ file_path # NoFile /\ git_dir_exists /\ git_installed
    /\ describe_proc.rc = 0 /\ revparse_proc.rc = 0
    /\ nproc = 0 /\ calls = <<"keywords">>

\* C2: a describe output TAG-NUM-gHEX whose TAG does not start with the tag
\* prefix makes the VCS resolver return the empty result, and get_versions
\* never returns a version of None.
MismatchOutputs == {<<"x", "1", "-", "0", "-", "g", "a", "1">>,
                    <<"x", "1", "-", "0", "-", "g", "a", "1">> \o DIRTY}
PrefixMismatchFallsThrough ==
    /\ (vcsres # NotRun /\ describe_proc.rc = 0
            /\ \E o \in MismatchOutputs : describe_proc.stdout = o \o <<"\n">>)
           => vcsres = Empty
    /\ (pc = "done" /\ ret # NotRun) => ret.version # None

\* C3: PREFIX+TAG-N-gHEX without a dirty marker parses to TAG when N = 0 and
\* to TAG+N.gHEX when N > 0, not dirty.
ParsesTaggedDescribe ==
    \A t \in TagPool, n \in NumStrings, h \in HexPool :
        (/\ parsed # NotRun
         /\ tag_prefix \o t # <<>>
         /\ git_describe = Describe(tag_prefix \o t, n, h))
        => /\ parsed.dirty = FALSE
           /\ parsed.version =
                  IF AllZeros(n) THEN t
                  ELSE t \o <<"+">> \o Canonical(n) \o <<".", "g">> \o h

HyphenTagParsed ==
    /\ tag_prefix = <<"v">>
    /\ git_describe = Describe(<<"v", "1", "-", "0", "-", "g", "a">>, <<"1", "0">>, <<"a", "1">>)
    /\ parsed # NotRun
    /\ parsed.version = <<"1", "-", "0", "-", "g", "a", "+", "1", "0", ".", "g", "a", "1">>

\* C4 as claimed: the dirty variant of TAG-N-gHEX parses to a version ending
\* in ".dirty", and removing ".dirty" gives the version of the clean input.
DirtyStripReproducesClean ==
    \A t \in TagPool, n \in NumStrings, h \in HexPool :
        (/\ parsed # NotRun /\ parsed_dirty # NotRun
         /\ tag_prefix \o t # <<>>
         /\ git_describe = Describe(tag_prefix \o t, n, h))
        => /\ endswith(parsed_dirty.version, DOT_DIRTY)
           /\ RemoveSuffix(parsed_dirty.version, DOT_DIRTY) = parsed.version

\* C4 amended: the dirty variant always ends in ".dirty"; removing it gives
\* the clean version when N > 0, and TAG+0.gHEX (the clean version being the
\* bare TAG) when N = 0.
DirtyStripReproducesCleanWhenAhead ==
    \A t \in TagPool, n \in NumStrings, h \in HexPool :
        (/\ parsed # NotRun /\ parsed_dirty # NotRun
         /\ tag_prefix \o t # <<>>
         /\ git_describe = Describe(tag_prefix \o t, n, h))
        => /\ endswith(parsed_dirty.version, DOT_DIRTY)
           /\ parsed_dirty.dirty = TRUE
           /\ IF AllZeros(n)
              THEN /\ RemoveSuffix(parsed_dirty.version, DOT_DIRTY)
                          = t \o <<"+", "0", ".", "g">> \o h
                   /\ parsed.version = t
              ELSE RemoveSuffix(parsed_dirty.version, DOT_DIRTY) = parsed.version

DirtyExactTagParsed ==
    /\ tag_prefix = <<"v">>
    /\ git_describe = Describe(<<"v", "1", ".", "0">>, <<"0">>, <<"0", "f", "e">>)
    /\ parsed # NotRun
    /\ parsed_dirty # NotRun
    /\ parsed_dirty.version = <<"1", ".", "0", "+", "0", ".", "g", "0", "f", "e">> \o DOT_DIRTY

\* C5: the version is the prefix-stripped smallest (in lexicographic order)
\* candidate that starts with the tag prefix, or "0+unknown" when no candidate
\* does; full is the trimmed full hash.
PicksSmallestPrefixedCandidate ==
    (pc = "returned" /\ kwres.kind = "dict") =>
        LET cands == {t \in likely_tags : startswith(t, tag_prefix)}
        IN  /\ kwres.full = strip(keywords["full"])
            /\ IF cands = {} THEN kwres.version = UNKNOWN
               ELSE \E m \in cands :
                        /\ \A o \in cands \ {m} : LexLess(m, o)
                        /\ kwres.version = From(m, Len(tag_prefix))

PlainTagBeatsReleaseCandidate ==
    /\ pc = "returned" /\ kwres.kind = "dict"
    /\ tag_prefix = <<"v">>
    /\ likely_tags = {<<"v", "2", ".", "0">>, <<"v", "2", ".", "0", "r", "c", "1">>}
    /\ kwres.version = <<"2", ".", "0">>
    /\ kwres.full = FULLHEX

\* C6 as claimed: an empty or whitespace-only refnames makes
\* git_versions_from_keywords return the empty result, and get_versions goes
\* on to the next resolver.
EmptyRefnamesFailsSoft ==
    (kwres # NotRun /\ Blank(git_refnames)) =>
        /\ kwres = Empty
        /\ calls = <<"keywords">> => pc \in {"root", "vcs"}

\* C6 amended: an empty or whitespace-only refnames yields the VersionInfo
\* "0+unknown" with the trimmed full hash, which get_versions returns without
\* invoking the VCS resolver.
EmptyRefnamesYieldsUnknown ==
    (kwres # NotRun /\ Blank(git_refnames)) =>
        /\ kwres = Dict(UNKNOWN, strip(git_full))
        /\ pc = "done" /\ ret = kwres
        /\ calls = <<"keywords">> /\ nproc = 0

BlankRefnamesReturned ==
    /\ pc = "done" /\ git_refnames = <<" ", " ">>
    /\ ret = Dict(UNKNOWN, FULLHEX)
    /\ file_path # NoFile /\ git_dir_exists /\ git_installed

\* C7 as claimed: whenever refnames contains $Format the keyword resolver
\* returns the empty result and the VCS resolver is the next one invoked.
UnexpandedContainsDefers ==
    (kwres # NotRun /\ ContainsSub(git_refnames, FORMAT)) =>
        /\ kwres = Empty
        /\ Len(calls) >= 2 => calls[2] = "vcs"

\* C7 amended: whenever refnames, trimmed, starts with $Format the keyword
\* resolver returns the empty result and get_versions does not return there:
\* the next step is the VCS resolver when __file__ is available and the
\* default when it is not.
UnexpandedPrefixDefers ==
    (kwres # NotRun
        /\ \E k \in 0..Len(git_refnames) :
               /\ Blank(SubSeq(git_refnames, 1, k))
               /\ startswith(From(git_refnames, k), FORMAT))
    => /\ kwres = Empty
       /\ calls = <<"keywords">> => (pc \in {"root", "vcs"} /\ ret = NotRun)
       /\ Len(calls) >= 2 =>
              calls[2] = IF file_path = NoFile THEN "default" ELSE "vcs"

UnexpandedWentToVcs ==
    /\ git_refnames = <<" ">> \o FORMAT_D
    /\ calls = <<"keywords", "vcs">>
    /\ kwres = Empty
    /\ Truthy(vcsres)

\* C8: git_versions_from_keywords returns a VersionInfo or the empty result
\* for every record git_get_keywords can produce; it never raises.
KeywordsResolverNeverRaises ==
    pc = "returned" => kwres.kind \in {"dict", "empty"}

\* C9: in a non-empty result of git_versions_from_vcs, full ends with ".dirty"
\* exactly when version does.
FullAndVersionAgreeOnDirty ==
    vcsres.kind = "dict" =>
        (endswith(vcsres.full, DOT_DIRTY) <=> endswith(vcsres.version, DOT_DIRTY))

\* C10: with at least one "tag: " entry the candidates are exactly the marked
\* entries, marker stripped, and the version comes from one of them (or is
\* "0+unknown"); the digit heuristic supplies the candidates only when no
\* entry is marked.
MarkedTagsShadowBareRefs ==
    \A es \in EntrySeqs :
        (/\ pc = "returned" /\ kwres.kind = "dict"
         /\ keywords["refnames"] = RenderMap[es])
        => LET entries == {es[i] : i \in 1..Len(es)}
               marked == {From(e, 5) : e \in {x \in entries : startswith(x, TAG)}}
           IN  IF marked # {}
               THEN /\ likely_tags = marked
                    /\ \/ kwres.version = UNKNOWN
                          /\ \A m \in marked : ~startswith(m, tag_prefix)
                       \/ \E m \in marked :
                              /\ startswith(m, tag_prefix)
                              /\ kwres.version = From(m, Len(tag_prefix))
               ELSE likely_tags = {e \in entries : HasDigit(e)}

BareVersionRefIgnored ==
    /\ pc = "returned" /\ kwres.kind = "dict"
    /\ tag_prefix = <<"v">>
    /\ keywords["refnames"] = Render(<<TAG \o <<"x", "1">>, <<"v", "1", ".", "5">>>>)
    /\ likely_tags = {<<"x", "1">>}
    /\ kwres.version = UNKNOWN

====
